---- MODULE Spec2Model ----
(***************************************************************************)
(* py2gpu blockwise dispatch: the registry of declared block functions     *)
(* (_gpu_funcs), compile_gpu_code / emulate_gpu_code, and the call path    *)
(* _call_blockwise -> _gpu_func of src/api.py.                             *)
(*                                                                         *)
(* The source raises AssertionError (and KeyError / ValueError /           *)
(* NameError); each assertion site is labelled here with the error kind    *)
(* the specification gives it:                                             *)
(*   api.py:28   InvalidConfiguration     api.py:37   DuplicateRegistration *)
(*   api.py:49   NotCompiled              api.py:162  InvalidConfiguration  *)
(*   api.py:170  IndivisibleBlockShape    api.py:178  InconsistentBlockCount*)
(*   convert / SourceModule / get_function / prepare  CompilationError     *)
(*   prepared_call                        KernelExecutionError             *)
(***************************************************************************)
EXTENDS Integers, Sequences, FiniteSets, TLC

VARIABLES gpu_funcs, nbind, last, devlog, call

vars == <<gpu_funcs, nbind, last, devlog, call>>

(***************************************************************************)
(* Bounds                                                                  *)
(***************************************************************************)
MaxDim == 2
MaxBlockDim == 2
MaxBinds == 2

FuncNames == {"f", "g"}
ArgNames == <<"a", "b">>
Ranks == {1, 2}

ArgNameSet == {ArgNames[i] : i \in 1..Len(ArgNames)}

BlockShapes == UNION {[1..r -> 1..MaxBlockDim] : r \in Ranks}
ArrayShapes == UNION {[1..r -> 0..MaxDim] : r \in Ranks}

(***************************************************************************)
(* Helpers (numpy / python primitives)                                     *)
(***************************************************************************)
Min(a, b) == IF a <= b THEN a ELSE b

RECURSIVE Prod(_)
Prod(s) == IF Len(s) = 0 THEN 1 ELSE Head(s) * Prod(Tail(s))

\* numpy.ndarray.size
Size(S) == Prod(S)

\* shape == (1,) * len(shape)
AllOnes(B) == \A i \in 1..Len(B) : B[i] = 1

\* dict.setdefault(key, value)
SetDefault(d, k, v) == IF k \in DOMAIN d THEN d ELSE (k :> v) @@ d

Perms(S) == {s \in [1..Cardinality(S) -> S] : \A i, j \in 1..Cardinality(S) : s[i] = s[j] => i = j}

NoHandle == [kind |-> "none", id |-> 0]
EmptyRegistry == [n \in {} |-> NoHandle]
NotComputed == -1
NoCall == [args |-> <<>>, blockcounts |-> <<>>, count |-> 0, failedAt |-> 0]

(***************************************************************************)
(* blockwise(blockshapes, types, overlapping, center_as_origin, name)      *)
(***************************************************************************)
\* api.py:28 -- the only configuration assertion made at declaration time
InvalidFlags(cfg) == ~(cfg.overlapping \/ ~cfg.center_as_origin)

\* api.py:34-36
FName(name, funcname) == IF name = "" THEN funcname ELSE name

AlreadyRegisteredMut(fname, reg) == FALSE
\* api.py:37
AlreadyRegistered(fname, reg) == fname \in DOMAIN reg

\* api.py:38-47
NewInfo(funcname, cfg) ==
    [func |-> funcname,
     argnames |-> ArgNames,
     blockshapes |-> cfg.blockshapes,
     overlapping |-> cfg.overlapping,
     center_as_origin |-> cfg.center_as_origin,
     types |-> cfg.types,
     gpufunc |-> NoHandle]

\* api.py:25-55 -- the statement  @blockwise(...) def funcname.  op is the
\* function that ran last: blockwise (the decorator was never created) or
\* _blockwise (the decorator was applied to the function)
BlockwiseResult(reg, name, funcname, cfg) ==
    LET fname == FName(name, funcname) IN
    IF InvalidFlags(cfg)
    THEN [reg |-> reg, op |-> "blockwise", fname |-> fname,
          err |-> "InvalidConfiguration"]
    ELSE IF AlreadyRegistered(fname, reg)
    THEN [reg |-> reg, op |-> "_blockwise", fname |-> fname,
          err |-> "DuplicateRegistration"]
    ELSE [reg |-> SetDefault(reg, fname, NewInfo(funcname, cfg)),
          op |-> "_blockwise", fname |-> fname, err |-> "none"]

(***************************************************************************)
(* GPUArray and the block partitioning of _gpu_func                        *)
(***************************************************************************)
\* api.py:79-95 -- driver calls made by GPUArray(data) for argument i
GPUArrayInit(i) ==
    << <<"mem_alloc", i>>, <<"to_device", i>>,
       <<"memcpy_htod", i>>, <<"memcpy_htod", i>> >>

CopyBackMut(arrays) ==
    [k \in 1..Len(arrays) |-> <<"copy_to_host", arrays[Len(arrays) + 1 - k]>>]
\* api.py:191-193 -- one copy_to_host per uploaded array, in upload order
CopyBack(arrays) == [k \in 1..Len(arrays) |-> <<"copy_to_host", arrays[k]>>]

\* api.py:149
IsRawArray(arg) == arg.kind = "ndarray"

\* api.py:152 (after line 150 a raw array has become a GPUArray)
IsGPUArray(arg) == arg.kind \in {"ndarray", "GPUArray"}

\* api.py:153-154 -- blockshapes.get(argname), tested for truth
HasBlockShape(info, argname) ==
    /\ argname \in DOMAIN info.blockshapes
    /\ Len(info.blockshapes[argname]) > 0

NotMultipleMut(S, B) == Size(S) % Prod(B) # 0
\* api.py:170-171 -- any(dim1 % dim2 for dim1, dim2 in zip(arg.data.shape, shape))
NotMultiple(S, B) == \E i \in 1..Min(Len(S), Len(B)) : S[i] % B[i] # 0

\* numpy broadcasting of two 1-d operands
CanBroadcast(S, B) == Len(S) = Len(B) \/ Len(S) = 1 \/ Len(B) = 1
Pick(s, i) == IF Len(s) = 1 THEN s[1] ELSE s[i]
\* api.py:167-168 -- numpy.array(arg.data.shape) - (numpy.array(shape) - 1)
WindowTerms(S, B) ==
    [i \in 1..(IF Len(S) >= Len(B) THEN Len(S) ELSE Len(B)) |->
        Pick(S, i) - (Pick(B, i) - 1)]

\* api.py:155-176 -- the block count one argument implies, or the error raised
BlockCountOf(info, S, B) ==
    IF info.overlapping /\ AllOnes(B)
    THEN IF info.center_as_origin
         THEN IF \A i \in 1..Len(B) : B[i] % 2 # 0
              THEN [err |-> "none", blockcount |-> Size(S)]
              ELSE [err |-> "InvalidConfiguration", blockcount |-> NotComputed]
         ELSE IF CanBroadcast(S, B)
              THEN [err |-> "none", blockcount |-> Prod(WindowTerms(S, B))]
              ELSE [err |-> "ValueError", blockcount |-> NotComputed]
    ELSE IF NotMultiple(S, B)
         THEN [err |-> "IndivisibleBlockShape", blockcount |-> NotComputed]
         ELSE [err |-> "none", blockcount |-> Size(S) \div Prod(B)]

\* api.py:144-147
LoopStart(args) ==
    [arrays |-> <<>>, count |-> 0, err |-> "none", log |-> <<>>,
     blockcounts |-> [i \in 1..Len(args) |-> NotComputed], failedAt |-> 0]

\* api.py:149-184 -- one iteration of the argument loop
ProcessArg(info, args, i, st) ==
    LET arg == args[i]
        argname == info.argnames[i]
        st1 == IF IsRawArray(arg)
               THEN [st EXCEPT !.log = st.log \o GPUArrayInit(i),
                               !.arrays = Append(st.arrays, i)]
               ELSE st
    IN  IF IsGPUArray(arg) /\ HasBlockShape(info, argname)
        THEN LET r == BlockCountOf(info, arg.shape, info.blockshapes[argname]) IN
             IF r.err # "none"
             THEN [st1 EXCEPT !.err = r.err, !.failedAt = i]
             ELSE IF st1.count # 0 /\ st1.count # r.blockcount
             THEN [st1 EXCEPT !.err = "InconsistentBlockCount", !.failedAt = i,
                              !.blockcounts[i] = r.blockcount]
             ELSE [st1 EXCEPT !.count = r.blockcount,
                              !.blockcounts[i] = r.blockcount]
        ELSE st1

\* api.py:148 -- for argname, arg in zip(argnames, args)
RECURSIVE ArgLoop(_, _, _, _)
ArgLoop(info, args, i, st) ==
    IF i > Min(Len(info.argnames), Len(args)) \/ st.err # "none"
    THEN st
    ELSE ArgLoop(info, args, i + 1, ProcessArg(info, args, i, st))

\* api.py:143-193 -- _gpu_func(*args); launchOK is the outcome of prepared_call
GpuFunc(info, args, launchOK) ==
    LET st == ArgLoop(info, args, 1, LoopStart(args)) IN
    IF st.err # "none"
    THEN st
    ELSE LET launched == [st EXCEPT !.log = Append(st.log, <<"prepared_call", st.count>>)] IN
         IF launchOK
         THEN [launched EXCEPT !.log = launched.log \o CopyBack(st.arrays)]
         ELSE [launched EXCEPT !.err = "KernelExecutionError"]

\* api.py:197-200 -- the emulator stub raises before doing anything
Emulator(args) == [LoopStart(args) EXCEPT !.err = "NameError"]

NotCompiledMut(info) == FALSE
\* api.py:49
NotCompiled(info) == info.gpufunc.kind = "none"

\* api.py:48-52 -- _call_blockwise(*args)
CallBlockwise(info, args, launchOK) ==
    IF NotCompiled(info)
    THEN [LoopStart(args) EXCEPT !.err = "NotCompiled"]
    ELSE IF info.gpufunc.kind = "emu"
    THEN Emulator(args)
    ELSE GpuFunc(info, args, launchOK)

(***************************************************************************)
(* compile_gpu_code / emulate_gpu_code                                     *)
(***************************************************************************)
\* api.py:141 -- types[arg][0] raises KeyError for an argument without a type
MissingType(info) ==
    \E i \in 1..Len(info.argnames) : info.argnames[i] \notin DOMAIN info.types

\* api.py:134-142 -- the error make_gpu_func raises for one entry, if any;
\* badKernel: the names whose get_function / prepare the device runtime rejects
MakeGpuFuncErr(name, info, badKernel) ==
    IF name \in badKernel THEN "CompilationError"
    ELSE IF MissingType(info) THEN "KeyError"
    ELSE "none"

\* api.py:211-212 -- the binding loop over _gpu_funcs.items(), in dict order
RECURSIVE BindLoop(_, _, _, _, _)
BindLoop(reg, order, k, id, badKernel) ==
    IF k > Len(order)
    THEN [reg |-> reg, err |-> "none"]
    ELSE LET name == order[k]
             e == MakeGpuFuncErr(name, reg[name], badKernel)
         IN  IF e # "none"
             THEN [reg |-> reg, err |-> e]
             ELSE BindLoop([reg EXCEPT ![name].gpufunc = [kind |-> "gpu", id |-> id]],
                           order, k + 1, id, badKernel)

\* api.py:203-212 -- genfail: failure of convert() or of SourceModule()
CompileResult(reg, order, id, genfail, badKernel) ==
    IF genfail # "none"
    THEN [reg |-> reg, err |-> "CompilationError"]
    ELSE BindLoop(reg, order, 1, id, badKernel)

\* api.py:214-216
EmulateResult(reg, id) ==
    [n \in DOMAIN reg |-> [reg[n] EXCEPT !.gpufunc = [kind |-> "emu", id |-> id]]]

(***************************************************************************)
(* Inputs                                                                  *)
(***************************************************************************)
Scalar == [kind |-> "scalar", shape |-> <<>>]
NdArray(S) == [kind |-> "ndarray", shape |-> S]
DevArray(S) == [kind |-> "GPUArray", shape |-> S]

AllTyped == [n \in ArgNameSet |-> "P"]

Config(bs, ty, o, c) ==
    [blockshapes |-> bs, types |-> ty, overlapping |-> o, center_as_origin |-> c]

\* every declaration over ArgNames that blockwise() accepts
CallConfigs ==
    {cfg \in {Config(bs, AllTyped, o, c) :
                 bs \in UNION {[D -> BlockShapes] : D \in SUBSET ArgNameSet},
                 o \in BOOLEAN, c \in BOOLEAN} : ~InvalidFlags(cfg)}

CallArgs == {Scalar} \cup {NdArray(S) : S \in ArrayShapes}
                     \cup {DevArray(S) : S \in ArrayShapes}
CallArgLists == [1..Len(ArgNames) -> CallArgs]

\* the declarations and calls used in the registry life cycle
LifeConfigs ==
    {Config("a" :> <<1>>, AllTyped, TRUE, FALSE),
     Config("a" :> <<1, 1>>, AllTyped, TRUE, TRUE),
     Config(("a" :> <<2, 2>>) @@ ("b" :> <<2, 2>>), AllTyped, TRUE, TRUE),
     Config("a" :> <<2>>, "a" :> "P", FALSE, FALSE),
     Config("a" :> <<1>>, AllTyped, FALSE, TRUE)}

LifeArgLists ==
    {<<NdArray(<<2>>), Scalar>>,
     <<NdArray(<<2, 2>>), DevArray(<<2, 2>>)>>,
     <<DevArray(<<3>>), NdArray(<<4>>)>>}

(***************************************************************************)
(* State machine                                                           *)
(***************************************************************************)
Init ==
    /\ gpu_funcs = EmptyRegistry
    /\ nbind = 0
    /\ last = [op |-> "init", fname |-> "", err |-> "none", id |-> 0]
    /\ devlog = <<>>
    /\ call = NoCall

\* @blockwise(blockshapes, types, overlapping, center_as_origin, name) def funcname
Register(name, funcname, cfg) ==
    /\ \E r \in {BlockwiseResult(gpu_funcs, name, funcname, cfg)} :
       /\ gpu_funcs' = r.reg
       /\ last' = [op |-> r.op, fname |-> r.fname, err |-> r.err, id |-> 0]
    /\ devlog' = <<>>
    /\ call' = NoCall
    /\ UNCHANGED nbind

CompileGpuCode(order, genfail, badKernel) ==
    /\ nbind < MaxBinds
    /\ genfail = "convert" => DOMAIN gpu_funcs # {}
    /\ \E r \in {CompileResult(gpu_funcs, order, nbind + 1, genfail, badKernel)} :
       /\ gpu_funcs' = r.reg
       /\ last' = [op |-> "compile_gpu_code", fname |-> "", err |-> r.err,
                   id |-> nbind + 1]
    /\ nbind' = nbind + 1
    /\ devlog' = <<>>
    /\ call' = NoCall

EmulateGpuCode ==
    /\ nbind < MaxBinds
    /\ gpu_funcs' = EmulateResult(gpu_funcs, nbind + 1)
    /\ last' = [op |-> "emulate_gpu_code", fname |-> "", err |-> "none",
                id |-> nbind + 1]
    /\ nbind' = nbind + 1
    /\ devlog' = <<>>
    /\ call' = NoCall

\* a call of the wrapper returned by the decoration of fname
Invoke(fname, args, launchOK) ==
    /\ fname \in DOMAIN gpu_funcs
    /\ \E r \in {CallBlockwise(gpu_funcs[fname], args, launchOK)} :
       /\ last' = [op |-> "invoke", fname |-> fname, err |-> r.err, id |-> 0]
       /\ devlog' = r.log
       /\ call' = [args |-> args, blockcounts |-> r.blockcounts,
                   count |-> r.count, failedAt |-> r.failedAt]
    /\ UNCHANGED <<gpu_funcs, nbind>>

Next ==
    \/ \E name \in FuncNames \cup {""}, funcname \in FuncNames, cfg \in LifeConfigs :
          Register(name, funcname, cfg)
    \/ \E order \in Perms(DOMAIN gpu_funcs),
          genfail \in {"none", "convert", "SourceModule"},
          badKernel \in SUBSET DOMAIN gpu_funcs :
          CompileGpuCode(order, genfail, badKernel)
    \/ EmulateGpuCode
    \/ \E fname \in DOMAIN gpu_funcs, args \in LifeArgLists, launchOK \in BOOLEAN :
          Invoke(fname, args, launchOK)

Spec == Init /\ [][Next]_vars

\* one call of one declared and compiled function "f"
CallInit ==
    /\ \E cfg \in CallConfigs :
          gpu_funcs = CompileResult(BlockwiseResult(EmptyRegistry, "", "f", cfg).reg,
                                    <<"f">>, 1, "none", {}).reg
    /\ nbind = 1
    /\ last = [op |-> "compile_gpu_code", fname |-> "", err |-> "none", id |-> 1]
    /\ devlog = <<>>
    /\ call = NoCall

CallNext ==
    /\ last.op # "invoke"
    /\ \E args \in CallArgLists, launchOK \in BOOLEAN : Invoke("f", args, launchOK)

CallSpec == CallInit /\ [][CallNext]_vars

(***************************************************************************)
(* Properties                                                              *)
(***************************************************************************)
Called == last.op = "invoke"
CalledInfo == gpu_funcs[last.fname]

\* argument i of the last call is an array with a declared block shape
BlockShaped(i) ==
    /\ call.args[i].kind \in {"ndarray", "GPUArray"}
    /\ ArgNames[i] \in DOMAIN CalledInfo.blockshapes
ShapeOf(i) == call.args[i].shape
BlockOf(i) == CalledInfo.blockshapes[ArgNames[i]]

\* the argument loop of the last call got as far as argument i
Reached(i) == call.failedAt = 0 \/ i <= call.failedAt

Launched == \E k \in 1..Len(devlog) : devlog[k][1] = "prepared_call"
Allocated ==
    \E k \in 1..Len(devlog) : devlog[k][1] \in {"mem_alloc", "to_device", "memcpy_htod"}

EveryAxisMultiple(S, B) == \A ax \in 1..Len(S) : S[ax] % B[ax] = 0
EveryAxisFits(S, B) == \A ax \in 1..Len(S) : B[ax] <= S[ax]
WindowOrigins(S, B) == Prod([ax \in 1..Len(S) |-> S[ax] - B[ax] + 1])

\* the arguments named by the events of one kind, in log order
Events(kind) ==
    LET sel == SelectSeq(devlog, LAMBDA e : e[1] = kind)
    IN  [k \in 1..Len(sel) |-> sel[k][2]]
RawArgs ==
    SelectSeq([i \in 1..Len(call.args) |-> i],
              LAMBDA i : call.args[i].kind = "ndarray")

PartitionErrors ==
    {"ShapeMismatch", "BlockTooLarge", "IndivisibleBlockShape", "InconsistentBlockCount"}

\* C1: with overlapping=false, a block-shaped argument of shape S and block
\* shape B of equal rank yields the block count size(S) / size(B) when every
\* axis of S is a multiple of the axis of B; otherwise the call fails at that
\* argument with IndivisibleBlockShape and the kernel is not launched.
C1_NonOverlappingCount ==
    (Called /\ ~CalledInfo.overlapping) =>
        \A i \in 1..Len(call.args) :
            (BlockShaped(i) /\ Reached(i) /\ Len(ShapeOf(i)) = Len(BlockOf(i))) =>
                IF EveryAxisMultiple(ShapeOf(i), BlockOf(i))
                THEN call.blockcounts[i] * Prod(BlockOf(i)) = Size(ShapeOf(i))
                ELSE /\ last.err = "IndivisibleBlockShape"
                     /\ call.failedAt = i
                     /\ ~Launched

C1_Witness ==
    /\ Called /\ ~CalledInfo.overlapping /\ Launched
    /\ \E i \in 1..Len(call.args) :
          /\ BlockShaped(i) /\ Len(ShapeOf(i)) = 2 /\ Len(BlockOf(i)) = 2
          /\ Prod(BlockOf(i)) = 2
          /\ call.blockcounts[i] = 2

\* C2: with overlapping=true and centerAsOrigin=false, a block-shaped argument
\* yields the block count prod(S[i] - B[i] + 1) for any block shape B, and the
\* call fails with BlockTooLarge when some B[i] > S[i].
C2_SlidingWindowCount ==
    (Called /\ CalledInfo.overlapping /\ ~CalledInfo.center_as_origin) =>
        \A i \in 1..Len(call.args) :
            (BlockShaped(i) /\ Reached(i) /\ Len(ShapeOf(i)) = Len(BlockOf(i))) =>
                IF EveryAxisFits(ShapeOf(i), BlockOf(i))
                THEN call.blockcounts[i] = WindowOrigins(ShapeOf(i), BlockOf(i))
                ELSE last.err = "BlockTooLarge"

\* C3: two block-shaped arguments whose individually computed block counts
\* differ (a first count of 0 included) make the call fail with
\* InconsistentBlockCount, and the kernel is not launched.
C3_ConsistentCount ==
    Called =>
        \A i, j \in 1..Len(call.args) :
            (/\ i < j /\ BlockShaped(i) /\ BlockShaped(j)
             /\ BlockCountOf(CalledInfo, ShapeOf(i), BlockOf(i)).err = "none"
             /\ BlockCountOf(CalledInfo, ShapeOf(j), BlockOf(j)).err = "none"
             /\ BlockCountOf(CalledInfo, ShapeOf(i), BlockOf(i)).blockcount
                  # BlockCountOf(CalledInfo, ShapeOf(j), BlockOf(j)).blockcount)
            => (last.err = "InconsistentBlockCount" /\ ~Launched)

\* C4: a call that fails with a partitioning error has made no device
\* allocation and no upload before the failure.
C4_NoAllocationBeforeError ==
    (Called /\ last.err \in PartitionErrors) => ~Allocated

\* C5: every registry entry with center_as_origin has overlapping set and only
\* odd block dimensions.
C5_CenterConfiguration ==
    \A n \in DOMAIN gpu_funcs :
        gpu_funcs[n].center_as_origin =>
            /\ gpu_funcs[n].overlapping
            /\ \A a \in DOMAIN gpu_funcs[n].blockshapes :
                  \A ax \in 1..Len(gpu_funcs[n].blockshapes[a]) :
                      gpu_funcs[n].blockshapes[a][ax] % 2 = 1

\* C6: a call of a registered function that has no callable bound fails with
\* NotCompiled, and does no marshaling, no device allocation and no launch.
C6_NotCompiled ==
    (Called /\ CalledInfo.gpufunc = NoHandle) =>
        /\ last.err = "NotCompiled"
        /\ devlog = <<>>
        /\ call.count = 0
        /\ \A i \in 1..Len(call.args) : call.blockcounts[i] = NotComputed

C6_Witness ==
    /\ Called /\ CalledInfo.gpufunc = NoHandle /\ last.err = "NotCompiled"
    /\ \E n \in DOMAIN gpu_funcs : gpu_funcs[n].gpufunc.kind = "gpu"

\* C7: once an entry's callable is bound, no later step replaces it.
C7_BoundOnce ==
    [][\A n \in DOMAIN gpu_funcs :
          gpu_funcs[n].gpufunc # NoHandle =>
              gpu_funcs'[n].gpufunc = gpu_funcs[n].gpufunc]_vars

\* C8: a compile_gpu_code call that fails has bound no entry.
C8_CompileAllOrNothing ==
    (last.op = "compile_gpu_code" /\ last.err # "none") =>
        \A n \in DOMAIN gpu_funcs : gpu_funcs[n].gpufunc.id # last.id

\* C9: applying the decorator under a name that is already registered fails
\* with DuplicateRegistration and leaves the whole registry as it was.
C9_UniqueNames ==
    [][(last'.op = "_blockwise" /\ last'.fname \in DOMAIN gpu_funcs) =>
          (last'.err = "DuplicateRegistration" /\ gpu_funcs' = gpu_funcs)]_vars

C9_Witness ==
    /\ last.op = "_blockwise" /\ last.err = "DuplicateRegistration"
    /\ gpu_funcs[last.fname].gpufunc.kind = "gpu"
    /\ Cardinality(DOMAIN gpu_funcs) = 2

\* C10: copy-back happens only after a successful launch, once for each raw
\* array the call uploaded and in upload order; device handles are not copied
\* back, and a failed launch is followed by no copy-back.
C10_CopyBack ==
    Called =>
        /\ \A k \in 1..Len(devlog) :
              devlog[k][1] = "copy_to_host" =>
                  /\ last.err = "none"
                  /\ \E l \in 1..(k - 1) : devlog[l][1] = "prepared_call"
                  /\ call.args[devlog[k][2]].kind = "ndarray"
        /\ last.err = "none" =>
              /\ Events("copy_to_host") = Events("to_device")
              /\ Events("copy_to_host") = RawArgs
        /\ last.err # "none" => Events("copy_to_host") = <<>>

C10_Witness ==
    /\ Called /\ last.err = "none"
    /\ Events("copy_to_host") = <<1, 2>>
    /\ call.count > 1

====
